---- MODULE Spec2Model ----
(***************************************************************************)
(* Model of the search route of google-books-app                           *)
(* (src/src/app/api/search/route.ts): one GET request, from the parsing of *)
(* its parameters through the primary page fetch and the statistics chunk  *)
(* loop to the response.                                                   *)
(*                                                                         *)
(* JavaScript values are represented as follows.                           *)
(*   - a string on which the code works character by character (q, page,   *)
(*     publishedDate, the URL parameters) is a sequence of one-character   *)
(*     strings; other strings are TLA+ strings;                            *)
(*   - a value that may be null/undefined is None (<<>>) or Some(v)        *)
(*     (<<v>>); a number that may be NaN is NaN (<<>>) or Num(n) (<<n>>);  *)
(*   - the Map authorCounts is the sequence of its entries in insertion    *)
(*     order, which is the order in which a Map is iterated.               *)
(***************************************************************************)
EXTENDS Integers, Sequences, FiniteSets, TLC

None == <<>>
Some(x) == <<x>>
NaN == <<>>
Num(n) == <<n>>

(* ---------------------------------------------------------------------- *)
(* Program constants                                                      *)
(* ---------------------------------------------------------------------- *)
RESULTS_PER_PAGE == 10
MAX_RESULTS_FOR_STATS == 200
chunkSize == 40

(* ---------------------------------------------------------------------- *)
(* Bounds of the model                                                    *)
(* ---------------------------------------------------------------------- *)
\* Records carrying a volumeInfo that upstream delivers to the chunk loop
\* of one request; the other records delivered have no volumeInfo.
MaxInfos == 3

(* ---------------------------------------------------------------------- *)
(* Strings and numbers                                                    *)
(* ---------------------------------------------------------------------- *)
Digits == <<"0", "1", "2", "3", "4", "5", "6", "7", "8", "9">>
IsDigit(c) == \E i \in 1..10 : Digits[i] = c
DigitVal(c) == (CHOOSE i \in 1..10 : Digits[i] = c) - 1
IsSpace(c) == c \in {" ", "\t", "\n"}

\* Variant of Min: the greater of the two
Min_Greater(a, b) == IF a >= b THEN a ELSE b

Min(a, b) == IF a <= b THEN a ELSE b
Max(a, b) == IF a >= b THEN a ELSE b

\* Variant of Trim: the query is used as received
Trim_Nothing(s) == s

\* String.prototype.trim
RECURSIVE TrimStart(_)
TrimStart(s) ==
  IF s # <<>> /\ IsSpace(Head(s)) THEN TrimStart(Tail(s)) ELSE s
RECURSIVE TrimEnd(_)
TrimEnd(s) ==
  IF s # <<>> /\ IsSpace(s[Len(s)]) THEN TrimEnd(SubSeq(s, 1, Len(s) - 1)) ELSE s
Trim(s) == TrimEnd(TrimStart(s))

\* The value of the longest prefix of decimal digits of s, read after acc.
RECURSIVE DigitsValue(_, _)
DigitsValue(s, acc) ==
  IF s # <<>> /\ IsDigit(Head(s))
    THEN DigitsValue(Tail(s), acc * 10 + DigitVal(Head(s)))
    ELSE acc

\* parseInt(s, 10): leading white space, an optional sign, then digits;
\* NaN when no digit follows.
ParseInt(s) ==
  LET t == TrimStart(s)
      neg == t # <<>> /\ Head(t) = "-"
      u == IF t # <<>> /\ Head(t) \in {"-", "+"} THEN Tail(t) ELSE t
  IN IF u = <<>> \/ ~IsDigit(Head(u)) THEN NaN
     ELSE Num(IF neg THEN 0 - DigitsValue(u, 0) ELSE DigitsValue(u, 0))

\* Math.max(a, b) with b possibly NaN
MathMax(a, b) == IF b = NaN THEN NaN ELSE Num(Max(a, b[1]))

\* String(n) for an integer or NaN
RECURSIVE NatToString(_)
NatToString(n) ==
  IF n < 10 THEN <<Digits[n + 1]>>
  ELSE NatToString(n \div 10) \o <<Digits[(n % 10) + 1]>>
NumberToString(x) ==
  IF x = NaN THEN <<"N", "a", "N">>
  ELSE IF x[1] < 0 THEN <<"-">> \o NatToString(0 - x[1])
  ELSE NatToString(x[1])

\* parseYear(dateStr)
parseYear(dateStr) ==
  IF dateStr = None \/ dateStr[1] = <<>> THEN None
  ELSE LET s == dateStr[1]
       IN IF Len(s) >= 4 /\ \A i \in 1..4 : IsDigit(s[i])
            THEN Some(ParseInt(SubSeq(s, 1, 4))[1])
            ELSE None

(* ---------------------------------------------------------------------- *)
(* Upstream records                                                       *)
(* ---------------------------------------------------------------------- *)
D2020 == <<"2", "0", "2", "0", "-", "0", "5", "-", "0", "1">>
DCirca == <<"c", "i", "r", "c", "a", " ", "1", "9", "9", "0">>
D1999 == <<"1", "9", "9", "9">>

VolumeInfo(t, a, p, d) ==
  [title |-> t, authors |-> a, publishedDate |-> p, description |-> d]

\* The volumeInfo values upstream may deliver.
Infos ==
  { VolumeInfo(Some("Emma"), Some(<<"A", "B">>), Some(D1999), Some("text")),
    VolumeInfo(None, Some(<<"B", "A">>), Some(DCirca), None),
    VolumeInfo(Some("Dune"), Some(<<"A">>), Some(D2020), None) }

VolumeItem(i, v) == [id |-> i, volumeInfo |-> v]

\* A batch of n records: those of infos, then records without volumeInfo.
Batch(infos, n) ==
  [i \in 1..n |-> IF i <= Len(infos) THEN VolumeItem("v", Some(infos[i]))
                  ELSE VolumeItem("v", None)]

InfoSeqs(k) == UNION {[1..m -> Infos] : m \in 0..k}

(* ---------------------------------------------------------------------- *)
(* Formatting of the display page                                         *)
(* ---------------------------------------------------------------------- *)
RECURSIVE Join(_, _)
Join(ss, sep) ==
  IF ss = <<>> THEN <<>>
  ELSE IF Len(ss) = 1 THEN <<ss[1]>>
  ELSE <<ss[1], sep>> \o Join(Tail(ss), sep)

\* item.volumeInfo?.f
InfoField(item, f) ==
  IF item.volumeInfo = None THEN None ELSE item.volumeInfo[1][f]

OrElse(o, d) == IF o = None THEN d ELSE o[1]

formatAuthors(authors) ==
  IF authors = None \/ Len(authors[1]) = 0 THEN <<"Unknown author">>
  ELSE Join(authors[1], ", ")

formatResultLabel(item) ==
  LET authors == InfoField(item, "authors")
      title == OrElse(InfoField(item, "title"), "Untitled")
      authorStr == formatAuthors(authors)
  IN authorStr \o <<" - ", title>>

FormatItem(item) ==
  [id |-> item.id,
   label |-> formatResultLabel(item),
   authors |-> OrElse(InfoField(item, "authors"), <<>>),
   title |-> OrElse(InfoField(item, "title"), "Untitled"),
   description |-> InfoField(item, "description"),
   publishedDate |-> InfoField(item, "publishedDate")]

(* ---------------------------------------------------------------------- *)
(* The statistics fold                                                    *)
(* ---------------------------------------------------------------------- *)
\* authorCounts.get(a) ?? 0
GetCount(ac, a) ==
  IF \E i \in 1..Len(ac) : ac[i].author = a
    THEN ac[CHOOSE i \in 1..Len(ac) : ac[i].author = a].count
    ELSE 0

\* authorCounts.set(a, n): an existing key keeps its place, a new key goes last
SetCount(ac, a, n) ==
  IF \E i \in 1..Len(ac) : ac[i].author = a
    THEN [i \in 1..Len(ac) |-> IF ac[i].author = a
                                  THEN [author |-> a, count |-> n] ELSE ac[i]]
    ELSE Append(ac, [author |-> a, count |-> n])

\* Variant of CountAuthors: only the first author of a record is counted
CountAuthors_FirstOnly(ac, authors) ==
  IF authors = <<>> THEN ac
  ELSE SetCount(ac, Head(authors), GetCount(ac, Head(authors)) + 1)

RECURSIVE CountAuthors(_, _)
CountAuthors(ac, authors) ==
  IF authors = <<>> THEN ac
  ELSE CountAuthors(SetCount(ac, Head(authors), GetCount(ac, Head(authors)) + 1),
                    Tail(authors))

\* Variant of FoldYear: Math.min and Math.max exchanged
FoldYear_Swapped(acc, y) ==
  IF y # None
    THEN [acc EXCEPT
            !.earliestYear = IF acc.earliestYear = None THEN y
                             ELSE Some(Max(acc.earliestYear[1], y[1])),
            !.latestYear = IF acc.latestYear = None THEN y
                           ELSE Some(Min(acc.latestYear[1], y[1]))]
    ELSE acc

\* Variant of FoldYear: the year of the last dated record replaces both
FoldYear_LastWins(acc, y) ==
  IF y # None
    THEN [acc EXCEPT !.earliestYear = y, !.latestYear = y]
    ELSE acc

FoldYear(acc, y) ==
  IF y # None
    THEN [acc EXCEPT
            !.earliestYear = IF acc.earliestYear = None THEN y
                             ELSE Some(Min(acc.earliestYear[1], y[1])),
            !.latestYear = IF acc.latestYear = None THEN y
                           ELSE Some(Max(acc.latestYear[1], y[1]))]
    ELSE acc

\* One iteration of "for (const item of chunkItems)"
FoldItem(acc, item) ==
  LET authors == OrElse(InfoField(item, "authors"), <<>>)
      counted == [acc EXCEPT !.authorCounts = CountAuthors(acc.authorCounts, authors)]
      y == parseYear(InfoField(item, "publishedDate"))
  IN FoldYear(counted, y)

\* "for (const item of chunkItems)" over items[lo..hi], in order: the first
\* half, then the second half from the accumulators the first half leaves.
\* The split, and the comparison that has the first half evaluated before
\* the second half starts, keep the evaluation of a batch of chunkSize
\* records shallow; they do not change the result.
RECURSIVE FoldRange(_, _, _, _)
FoldRange(acc, items, lo, hi) ==
  IF lo > hi THEN acc
  ELSE IF lo = hi THEN FoldItem(acc, items[lo])
  ELSE LET mid == (lo + hi) \div 2
           left == FoldRange(acc, items, lo, mid)
       IN IF left = acc THEN FoldRange(acc, items, mid + 1, hi)
          ELSE FoldRange(left, items, mid + 1, hi)

FoldItems(acc, items) == FoldRange(acc, items, 1, Len(items))

\* Variant of IsNewMax: an equal count displaces the author kept so far
IsNewMax_OrEqual(count, maxCount) == count >= maxCount

\* "for (const [author, count] of authorCounts) if (count > maxCount) ..."
IsNewMax(count, maxCount) == count > maxCount

RECURSIVE MostCommonFrom(_, _, _, _)
MostCommonFrom(ac, i, best, maxCount) ==
  IF i > Len(ac) THEN best
  ELSE IF IsNewMax(ac[i].count, maxCount)
    THEN MostCommonFrom(ac, i + 1, Some(ac[i].author), ac[i].count)
    ELSE MostCommonFrom(ac, i + 1, best, maxCount)

MostCommonAuthor(ac) == MostCommonFrom(ac, 1, None, 0)

(* ---------------------------------------------------------------------- *)
(* Inputs of the model                                                    *)
(* ---------------------------------------------------------------------- *)
\* Values of the q parameter (None: the parameter is absent)
QParams == {None, Some(<<>>), Some(<<" ", "\t">>), Some(<<" ", "d", "\t">>)}

\* Values of the page parameter
PageParams == {None, Some(<<"-", "3">>), Some(<<"2">>), Some(<<"a", "b", "c">>)}

\* Values of process.env.GOOGLE_BOOKS_API_KEY
ApiKeys == {None, Some("key")}

\* totalItems of the primary response (None: the field is absent)
TotalItemsVals == {None, Some(0), Some(50), Some(450)}

\* items of the primary response (None: the field is absent)
PrimaryItemsVals ==
  {None,
   Some(<<VolumeItem("v1", Some(VolumeInfo(None, Some(<<"B", "A">>), Some(DCirca), None))),
          VolumeItem("v2", None)>>)}

\* Non-success answers of upstream
UpstreamErrors == {[status |-> 403, text |-> "Forbidden"],
                   [status |-> 503, text |-> "Unavailable"]}

\* Values thrown by fetch
Thrown == {[isError |-> TRUE, message |-> "fetch failed"],
           [isError |-> FALSE, message |-> "aborted"]}

\* Sizes of the batches upstream delivers to the chunk loop
BatchLens == {0, 1, 39, 40}

\* Values of Date.now() - startTime
ElapsedVals == {3}

(* ---------------------------------------------------------------------- *)
(* State                                                                  *)
(* ---------------------------------------------------------------------- *)
VARIABLES
  apiKey,          \* process.env.GOOGLE_BOOKS_API_KEY
  request,         \* the q and page parameters of the request
  pc,              \* "idle", "primary" (awaiting the primary fetch),
                   \* "chunk" (awaiting a chunk fetch), "done"
  q,               \* the trimmed query
  page,            \* the page number
  calls,           \* the upstream fetches issued so far, with their outcomes
  data,            \* the parsed body of the primary answer, None before it
  totalItems,
  formattedItems,
  authorCounts,
  earliestYear,
  latestYear,
  toFetch,
  fetched,
  scannedInfo,     \* history: the volumeInfo of the records folded so far
  response,        \* None until the request is answered
  \* The state of the Home component (page.tsx)
  query,           \* the text of the search box
  homePage,        \* the state "page"
  homeData,        \* the state "data": the displayed answer, or None
  error,
  loading,
  expandedId,
  prefetched,      \* None or Some([query, page, data])
  inflight,        \* the fetches of /api/search issued and not yet settled
  event,           \* history: the handler or completion that made the last step
  \* A static upstream serving two requests in a row
  upstream,        \* the answers fixed so far: a set of [url, answer]
  first            \* None, or the first request and its response

\* The state of the Home component
home == <<query, homePage, homeData, error, loading, expandedId, prefetched,
          inflight, event>>

\* Everything a single run of the route handler leaves alone
outside == <<home, upstream, first>>

\* The state of the route handler
handler == <<apiKey, request, pc, q, page, calls, data, totalItems, formattedItems,
             authorCounts, earliestYear, latestYear, toFetch, fetched, scannedInfo,
             response>>

vars == <<apiKey, request, pc, q, page, calls, data, totalItems, formattedItems,
          authorCounts, earliestYear, latestYear, toFetch, fetched, scannedInfo,
          response, outside>>

locals == <<data, totalItems, formattedItems, authorCounts, earliestYear, latestYear,
            toFetch, fetched, scannedInfo>>

\* buildBooksUrl(params): the parameters of the request, with the key if set
buildBooksUrl(params) ==
  IF apiKey # None THEN [params EXCEPT !.key = apiKey] ELSE params

\* new URLSearchParams({q, maxResults, startIndex})
URLSearchParams(text, maxResults, startIndex) ==
  [q |-> text, maxResults |-> NumberToString(maxResults),
   startIndex |-> NumberToString(startIndex), key |-> None]

\* A fetch that has been issued and not yet answered
Fetch(kind, url) ==
  [kind |-> kind, url |-> url, outcome |-> "pending", status |-> 0, text |-> "", n |-> 0]

\* The last fetch of cs answered: with n records (outcome "ok"), with the
\* non-success answer e (outcome "notok"), or by throwing (outcome "throw")
Answered(cs, o, e, n) ==
  [cs EXCEPT ![Len(cs)] =
     [@ EXCEPT !.outcome = o, !.status = e.status, !.text = e.text, !.n = n]]

Ok200 == [status |-> 200, text |-> ""]
NoAnswer == [status |-> 0, text |-> ""]

\* Variant of fetchChunk: the chunks are counted from the displayed page
fetchChunk_FromPage(start, maxResults) ==
  Fetch("chunk",
        buildBooksUrl(URLSearchParams(q, Num(maxResults),
          IF page = NaN THEN NaN ELSE Num(start + (page[1] - 1) * RESULTS_PER_PAGE))))

\* Variant of fetchChunk: maxResults and startIndex exchanged
fetchChunk_Swapped(start, maxResults) ==
  Fetch("chunk", buildBooksUrl(URLSearchParams(q, Num(start), Num(maxResults))))

\* fetchChunk(start, maxResults) up to its await
fetchChunk(start, maxResults) ==
  Fetch("chunk", buildBooksUrl(URLSearchParams(q, Num(maxResults), Num(start))))

Json(status, body) == Some([status |-> status, body |-> body])

\* The catch clause of GET
Catch(err, ms) ==
  Json(500, [error |-> IF err.isError THEN err.message ELSE "Search failed",
             responseTimeMs |-> ms])

\* The success response, built after the chunk loop
Success(ac, ey, ly, ms) ==
  Json(200, [items |-> formattedItems',
             totalItems |-> totalItems',
             mostCommonAuthor |-> MostCommonAuthor(ac),
             earliestPublicationYear |-> ey,
             latestPublicationYear |-> ly,
             responseTimeMs |-> ms])

\* Variant of LoopTest: the loop goes on while fetched <= toFetch
LoopTest_Inclusive(f, tf) == f <= tf

\* The test of the while loop
LoopTest(f, tf) == f < tf

\* Variant of Loop: the next two chunks are requested at once
Loop_TwoAhead(cs, broke, ms) ==
  IF ~broke /\ LoopTest(fetched', toFetch')
    THEN /\ pc' = "chunk"
         /\ calls' = cs \o <<fetchChunk(fetched', chunkSize),
                              fetchChunk(fetched' + chunkSize, chunkSize)>>
         /\ response' = None
    ELSE /\ pc' = "done"
         /\ calls' = cs
         /\ response' = Success(authorCounts', earliestYear', latestYear', ms)

\* Variant of Loop: the test comes after the first chunk (do ... while)
Loop_TestAfter(cs, broke, ms) ==
  IF ~broke /\ (LoopTest(fetched', toFetch') \/ Len(cs) = 1)
    THEN /\ pc' = "chunk"
         /\ calls' = Append(cs, fetchChunk(fetched', chunkSize))
         /\ response' = None
    ELSE /\ pc' = "done"
         /\ calls' = cs
         /\ response' = Success(authorCounts', earliestYear', latestYear', ms)

\* The chunk loop from its test to the next await or to the response:
\* cs is the log of the fetches answered so far, broke tells that the body
\* has just left the loop with break.
Loop(cs, broke, ms) ==
  IF ~broke /\ LoopTest(fetched', toFetch')
    THEN /\ pc' = "chunk"
         /\ calls' = Append(cs, fetchChunk(fetched', chunkSize))
         /\ response' = None
    ELSE /\ pc' = "done"
         /\ calls' = cs
         /\ response' = Success(authorCounts', earliestYear', latestYear', ms)

Init ==
  /\ apiKey \in ApiKeys
  /\ request = None
  /\ pc = "idle"
  /\ q = None
  /\ page = Num(1)
  /\ calls = <<>>
  /\ data = None
  /\ totalItems = 0
  /\ formattedItems = <<>>
  /\ authorCounts = <<>>
  /\ earliestYear = None
  /\ latestYear = None
  /\ toFetch = 0
  /\ fetched = 0
  /\ scannedInfo = <<>>
  /\ response = None
  /\ query = <<>>
  /\ homePage = 1
  /\ homeData = None
  /\ error = None
  /\ loading = FALSE
  /\ expandedId = None
  /\ prefetched = None
  /\ inflight = <<>>
  /\ event = None
  /\ upstream = {}
  /\ first = None

(* ---------------------------------------------------------------------- *)
(* GET, from the request to the primary fetch                              *)
(* ---------------------------------------------------------------------- *)
Receive(qp, pp) ==
  /\ pc = "idle"
  /\ request' = Some([q |-> qp, page |-> pp])
  /\ LET trimmed == IF qp = None THEN None ELSE Some(Trim(qp[1]))
         pg == MathMax(1, ParseInt(OrElse(pp, <<"1">>)))
         startIndex == IF pg = NaN THEN NaN ELSE Num((pg[1] - 1) * RESULTS_PER_PAGE)
     IN /\ q' = trimmed
        /\ page' = pg
        /\ IF trimmed = None \/ trimmed[1] = <<>>
             THEN /\ pc' = "done"
                  /\ response' = Json(400, [error |-> "Missing search query (q)"])
                  /\ calls' = calls
             ELSE /\ pc' = "primary"
                  /\ response' = None
                  /\ calls' = Append(calls,
                       Fetch("primary",
                             buildBooksUrl(URLSearchParams(trimmed, Num(RESULTS_PER_PAGE),
                                                           startIndex))))
  /\ UNCHANGED <<outside, apiKey, locals>>

(* ---------------------------------------------------------------------- *)
(* The primary fetch is answered                                          *)
(* ---------------------------------------------------------------------- *)
\* Variant of PrimaryNotOk: the non-success answer is thrown to the catch clause
PrimaryNotOk_AsUnexpected(e) ==
  /\ pc = "primary"
  /\ pc' = "done"
  /\ calls' = Answered(calls, "notok", e, 0)
  /\ response' = Catch([isError |-> TRUE, message |-> e.text], 3)
  /\ UNCHANGED <<outside, apiKey, request, q, page, locals>>

PrimaryNotOk(e) ==
  /\ pc = "primary"
  /\ pc' = "done"
  /\ calls' = Answered(calls, "notok", e, 0)
  /\ response' = Json(502, [error |-> <<"Google Books API error: ">>
                                        \o NumberToString(Num(e.status)),
                            details |-> e.text])
  /\ UNCHANGED <<outside, apiKey, request, q, page, locals>>

PrimaryThrow(err, ms) ==
  /\ pc = "primary"
  /\ pc' = "done"
  /\ calls' = Answered(calls, "throw", NoAnswer, 0)
  /\ response' = Catch(err, ms)
  /\ UNCHANGED <<outside, apiKey, request, q, page, locals>>

PrimaryOk(total, its, ms) ==
  /\ pc = "primary"
  /\ data' = Some([totalItems |-> total, items |-> its])
  /\ totalItems' = OrElse(total, 0)
  /\ formattedItems' = LET items == OrElse(its, <<>>)
                       IN [i \in 1..Len(items) |-> FormatItem(items[i])]
  /\ authorCounts' = <<>>
  /\ earliestYear' = None
  /\ latestYear' = None
  /\ toFetch' = Min(totalItems', MAX_RESULTS_FOR_STATS)
  /\ fetched' = 0
  /\ scannedInfo' = <<>>
  /\ Loop(Answered(calls, "ok", Ok200, Len(OrElse(its, <<>>))), FALSE, ms)
  /\ UNCHANGED <<outside, apiKey, request, q, page>>

(* ---------------------------------------------------------------------- *)
(* A chunk fetch is answered                                              *)
(* ---------------------------------------------------------------------- *)
\* Variant of LoopBody: neither an empty nor a short batch leaves the loop
LoopBody_NoBreak(cs, chunkItems, ms) ==
  IF Len(chunkItems) = 0
    THEN /\ UNCHANGED locals
         /\ Loop(cs, FALSE, ms)
    ELSE LET acc == FoldItems([authorCounts |-> authorCounts,
                               earliestYear |-> earliestYear,
                               latestYear |-> latestYear], chunkItems)
         IN /\ authorCounts' = acc.authorCounts
            /\ earliestYear' = acc.earliestYear
            /\ latestYear' = acc.latestYear
            /\ fetched' = fetched + Len(chunkItems)
            /\ scannedInfo' = scannedInfo \o
                 [i \in 1..Len(SelectSeq(chunkItems, LAMBDA it : it.volumeInfo # None)) |->
                    SelectSeq(chunkItems, LAMBDA it : it.volumeInfo # None)[i].volumeInfo[1]]
            /\ UNCHANGED <<data, totalItems, formattedItems, toFetch>>
            /\ Loop(cs, FALSE, ms)

\* The body of the while loop once fetchChunk has returned chunkItems;
\* cs is the log of the fetches answered so far.
LoopBody(cs, chunkItems, ms) ==
  IF Len(chunkItems) = 0
    THEN /\ UNCHANGED locals
         /\ Loop(cs, TRUE, ms)
    ELSE LET acc == FoldItems([authorCounts |-> authorCounts,
                               earliestYear |-> earliestYear,
                               latestYear |-> latestYear], chunkItems)
         IN /\ authorCounts' = acc.authorCounts
            /\ earliestYear' = acc.earliestYear
            /\ latestYear' = acc.latestYear
            /\ fetched' = fetched + Len(chunkItems)
            /\ scannedInfo' = scannedInfo \o
                 [i \in 1..Len(SelectSeq(chunkItems, LAMBDA it : it.volumeInfo # None)) |->
                    SelectSeq(chunkItems, LAMBDA it : it.volumeInfo # None)[i].volumeInfo[1]]
            /\ UNCHANGED <<data, totalItems, formattedItems, toFetch>>
            /\ Loop(cs, Len(chunkItems) < chunkSize, ms)

\* fetchChunk after its await, upstream having answered with success:
\* "return { items: d.items ?? [] }"
ChunkOk(its, ms) ==
  /\ pc = "chunk"
  /\ LET chunkItems == OrElse(its, <<>>)
     IN LoopBody(Answered(calls, "ok", Ok200, Len(chunkItems)), chunkItems, ms)
  /\ UNCHANGED <<outside, apiKey, request, q, page>>

\* Variant of ChunkNotOk: the non-success answer is thrown to the catch clause
ChunkNotOk_Throws(e, ms) ==
  /\ pc = "chunk"
  /\ pc' = "done"
  /\ calls' = Answered(calls, "notok", e, 0)
  /\ response' = Catch([isError |-> TRUE, message |-> e.text], ms)
  /\ UNCHANGED <<outside, apiKey, request, q, page, locals>>

\* fetchChunk after its await, upstream having answered with a non-success
\* status: "if (!r.ok) return { items: [] }"
ChunkNotOk(e, ms) ==
  /\ pc = "chunk"
  /\ LoopBody(Answered(calls, "notok", e, 0), <<>>, ms)
  /\ UNCHANGED <<outside, apiKey, request, q, page>>

\* Variant of ChunkThrow: the failure leaves GET without a response
ChunkThrow_Escapes(err, ms) ==
  /\ pc = "chunk"
  /\ pc' = "done"
  /\ calls' = Answered(calls, "throw", NoAnswer, 0)
  /\ response' = None
  /\ UNCHANGED <<outside, apiKey, request, q, page, locals>>

\* The fetch of fetchChunk throws: nothing catches it before the catch
\* clause of GET
ChunkThrow(err, ms) ==
  /\ pc = "chunk"
  /\ pc' = "done"
  /\ calls' = Answered(calls, "throw", NoAnswer, 0)
  /\ response' = Catch(err, ms)
  /\ UNCHANGED <<outside, apiKey, request, q, page, locals>>

\* The records with a volumeInfo upstream may still deliver, in order
Heads == InfoSeqs(MaxInfos - Len(scannedInfo))

Next ==
  \/ \E qp \in QParams, pp \in PageParams : Receive(qp, pp)
  \/ \E total \in TotalItemsVals, its \in PrimaryItemsVals, ms \in ElapsedVals :
       PrimaryOk(total, its, ms)
  \/ \E e \in UpstreamErrors : PrimaryNotOk(e)
  \/ \E err \in Thrown, ms \in ElapsedVals : PrimaryThrow(err, ms)
  \/ \E ms \in ElapsedVals : ChunkOk(None, ms)
  \/ \E n \in BatchLens, ms \in ElapsedVals :
       \E h \in {x \in Heads : Len(x) <= n} : ChunkOk(Some(Batch(h, n)), ms)
  \/ \E e \in UpstreamErrors, ms \in ElapsedVals : ChunkNotOk(e, ms)
  \/ \E err \in Thrown, ms \in ElapsedVals : ChunkThrow(err, ms)

Spec == Init /\ [][Next]_vars

\* The steps of a request whose chunk records carry no volumeInfo: the
\* control flow of Next with the least data
BareNext ==
  \/ \E qp \in QParams, pp \in PageParams : Receive(qp, pp)
  \/ \E total \in TotalItemsVals, its \in PrimaryItemsVals, ms \in ElapsedVals :
       PrimaryOk(total, its, ms)
  \/ \E e \in UpstreamErrors : PrimaryNotOk(e)
  \/ \E err \in Thrown, ms \in ElapsedVals : PrimaryThrow(err, ms)
  \/ \E ms \in ElapsedVals : ChunkOk(None, ms)
  \/ \E n \in BatchLens, ms \in ElapsedVals : ChunkOk(Some(Batch(<<>>, n)), ms)
  \/ \E e \in UpstreamErrors, ms \in ElapsedVals : ChunkNotOk(e, ms)
  \/ \E err \in Thrown, ms \in ElapsedVals : ChunkThrow(err, ms)

\* Every fetch awaited by the handler is eventually answered by upstream,
\* and the request itself arrives
FairSpec == Init /\ [][BareNext]_vars /\ WF_vars(BareNext)

(* ---------------------------------------------------------------------- *)
(* Two requests in a row against a static upstream                        *)
(* ---------------------------------------------------------------------- *)
\* A static upstream fixes its answer to a URL the first time the URL is
\* asked and gives that answer whenever it is asked again. Each request is
\* a fresh run of GET: the handler keeps nothing between requests.
TwiceQParams == {Some(<<" ", "d", "\t">>)}
TwicePageParams == PageParams
TwiceTotals == {None, Some(50), Some(450)}
TwiceBatches ==
  {Batch(<<i>>, chunkSize) : i \in {x \in Infos : x.title # None}}
    \cup {Batch(<<i>>, 1) : i \in {x \in Infos : x.title = None}}

\* The answers upstream can fix for a fetch of the given kind
StaticAnswers(kind) ==
  {[status |-> e.status, text |-> e.text, totalItems |-> None, items |-> None] :
     e \in {x \in UpstreamErrors : x.status = 403}}
  \cup (IF kind = "primary"
          THEN {[status |-> 200, text |-> "", totalItems |-> t, items |-> None] :
                  t \in TwiceTotals}
          ELSE {[status |-> 200, text |-> "", totalItems |-> None, items |-> Some(b)] :
                  b \in TwiceBatches})

\* The fetch the handler is waiting for
Awaited == calls[Len(calls)]

Known(url) == \E e \in upstream : e.url = url
AnswerTo(url) == (CHOOSE e \in upstream : e.url = url).answer

\* Upstream is asked a URL for the first time and fixes its answer
Fix(a) ==
  /\ pc \in {"primary", "chunk"}
  /\ ~Known(Awaited.url)
  /\ a \in StaticAnswers(Awaited.kind)
  /\ upstream' = upstream \cup {[url |-> Awaited.url, answer |-> a]}
  /\ UNCHANGED <<apiKey, request, pc, q, page, calls, locals, response, home, first>>

\* Upstream gives the answer it has fixed for the awaited URL
ServePrimaryOk(ms) ==
  /\ pc = "primary" /\ Known(Awaited.url)
  /\ LET a == AnswerTo(Awaited.url)
     IN a.status = 200 /\ PrimaryOk(a.totalItems, a.items, ms)

ServePrimaryNotOk ==
  /\ pc = "primary" /\ Known(Awaited.url)
  /\ LET a == AnswerTo(Awaited.url)
     IN a.status # 200 /\ PrimaryNotOk([status |-> a.status, text |-> a.text])

ServeChunkOk(ms) ==
  /\ pc = "chunk" /\ Known(Awaited.url)
  /\ LET a == AnswerTo(Awaited.url)
     IN a.status = 200 /\ ChunkOk(a.items, ms)

ServeChunkNotOk(ms) ==
  /\ pc = "chunk" /\ Known(Awaited.url)
  /\ LET a == AnswerTo(Awaited.url)
     IN a.status # 200 /\ ChunkNotOk([status |-> a.status, text |-> a.text], ms)

\* The first request is over and a second one is about to arrive: what the
\* first was answered is kept, and GET starts afresh
Again ==
  /\ pc = "done"
  /\ first = None
  /\ first' = Some([q |-> q, page |-> page, response |-> response])
  /\ request' = None
  /\ pc' = "idle"
  /\ q' = None
  /\ page' = Num(1)
  /\ calls' = <<>>
  /\ data' = None
  /\ totalItems' = 0
  /\ formattedItems' = <<>>
  /\ authorCounts' = <<>>
  /\ earliestYear' = None
  /\ latestYear' = None
  /\ toFetch' = 0
  /\ fetched' = 0
  /\ scannedInfo' = <<>>
  /\ response' = None
  /\ UNCHANGED <<apiKey, upstream, home>>

TwiceNext ==
  \/ \E qp \in TwiceQParams, pp \in TwicePageParams : Receive(qp, pp)
  \/ \E a \in StaticAnswers("primary") \cup StaticAnswers("chunk") : Fix(a)
  \/ \E ms \in ElapsedVals : ServePrimaryOk(ms)
  \/ ServePrimaryNotOk
  \/ \E ms \in ElapsedVals : ServeChunkOk(ms)
  \/ \E ms \in ElapsedVals : ServeChunkNotOk(ms)
  \/ Again

\* No API key is configured
TwiceInit == Init /\ apiKey = None

TwiceSpec == TwiceInit /\ [][TwiceNext]_vars

(* ---------------------------------------------------------------------- *)
(* The Home component (page.tsx)                                          *)
(* ---------------------------------------------------------------------- *)
\* Fetches of /api/search that may be in flight at once
MaxInflight == 2

\* Texts typed into the search box
Texts == {<<>>, <<"d", " ">>, <<"e">>}

\* Bodies of the 200 answers of /api/search to the request for page p of q.
\* "asked" is not a field of the body: it records which request the answer
\* was given to.
HomeBodies ==
  {[totalItems |-> Some(25), items |-> Some(<<"v">>)],
   [totalItems |-> Some(25), items |-> None],
   [totalItems |-> None, items |-> Some(<<>>)]}
OkBodies(text, p) ==
  {[asked |-> [q |-> text, p |-> p], totalItems |-> b.totalItems, items |-> b.items] :
     b \in HomeBodies}

\* The error field of the body of a non-success answer
ErrorFields == {None, Some("Google Books API error: 403")}

\* Math.max(1, Math.ceil(totalItems / 10)): NaN when totalItems is absent
PagesOf(t) == IF t = None THEN NaN ELSE Num(Max(1, (t[1] + 9) \div 10))

\* n < x, false when x is NaN
Less(n, x) == x # NaN /\ n < x[1]

\* The render of Home: totalPages and hasResults. A body without items
\* makes the render throw, and nothing can be clicked any more.
Rendered == IF homeData = None THEN TRUE ELSE homeData[1].items # None
RenderPages == IF homeData = None THEN Num(0) ELSE PagesOf(homeData[1].totalItems)
hasResults == homeData # None /\ homeData[1].items # None /\ Len(homeData[1].items[1]) > 0

ClientFetch(kind, text, p) == [kind |-> kind, q |-> text, p |-> p]

Remove(seq, i) == SubSeq(seq, 1, i - 1) \o SubSeq(seq, i + 1, Len(seq))

Ev(name, kind, p, outcome) ==
  Some([name |-> name, kind |-> kind, p |-> p, outcome |-> outcome])

\* onChange of the search box
SetQuery(text) ==
  /\ Rendered
  /\ query' = text
  /\ event' = Ev("setQuery", "", 0, "")
  /\ UNCHANGED <<homePage, homeData, error, loading, expandedId, prefetched, inflight>>
  /\ UNCHANGED <<handler, upstream, first>>

\* The click on a result
ToggleExpanded(id) ==
  /\ Rendered
  /\ hasResults
  /\ id \in {homeData[1].items[1][i] : i \in 1..Len(homeData[1].items[1])}
  /\ expandedId' = IF expandedId = Some(id) THEN None ELSE Some(id)
  /\ event' = Ev("toggle", "", 0, "")
  /\ UNCHANGED <<query, homePage, homeData, error, loading, prefetched, inflight>>
  /\ UNCHANGED <<handler, upstream, first>>

\* search(text, p) up to its await, after the setters of the caller
\* (cleared: the caller has called setPrefetched(null))
SearchStart(text, p) ==
  IF Trim(text) = <<>>
    THEN UNCHANGED <<loading, error, inflight>>
    ELSE /\ loading' = TRUE
         /\ error' = None
         /\ prefetched' = None
         /\ inflight' = Append(inflight, ClientFetch("search", Trim(text), p))

\* handleSubmit; the submit button is disabled while loading
handleSubmit ==
  /\ Rendered
  /\ ~loading
  /\ Len(inflight) < MaxInflight
  /\ homePage' = 1
  /\ prefetched' = None
  /\ SearchStart(query, 1)
  /\ event' = Ev("handleSubmit", "", 1, "")
  /\ UNCHANGED <<query, homeData, expandedId>>
  /\ UNCHANGED <<handler, upstream, first>>

\* goToPage(nextPage), from the Previous and Next buttons
goToPage(nextPage) ==
  /\ Rendered
  /\ hasResults
  /\ Less(1, RenderPages)
  /\ ~loading
  /\ \/ nextPage = homePage - 1 /\ homePage > 1
     \/ nextPage = homePage + 1 /\ Less(homePage, RenderPages)
  /\ Len(inflight) < MaxInflight
  /\ LET text == Trim(query)
     IN IF prefetched # None /\ prefetched[1].query = text
                            /\ prefetched[1].page = nextPage
          THEN /\ homeData' = Some(prefetched[1].data)
               /\ homePage' = nextPage
               /\ expandedId' = None
               /\ prefetched' = None
               /\ inflight' =
                    IF Less(nextPage, PagesOf(prefetched[1].data.totalItems))
                      THEN Append(inflight, ClientFetch("prefetch", text, nextPage + 1))
                      ELSE inflight
               /\ UNCHANGED <<error, loading>>
          ELSE /\ homePage' = nextPage
               /\ SearchStart(query, nextPage)
               /\ IF Trim(query) = <<>> THEN UNCHANGED prefetched ELSE TRUE
               /\ UNCHANGED <<homeData, expandedId>>
  /\ event' = Ev("goToPage", "", nextPage, "")
  /\ UNCHANGED query
  /\ UNCHANGED <<handler, upstream, first>>

\* search after its await: the fetch in flight at position i is answered 200
SearchOk(i, body) ==
  /\ i \in 1..Len(inflight)
  /\ inflight[i].kind = "search"
  /\ body \in OkBodies(inflight[i].q, inflight[i].p)
  /\ homeData' = Some(body)
  /\ expandedId' = None
  /\ inflight' =
       IF Less(inflight[i].p, PagesOf(Some(OrElse(body.totalItems, 0))))
         THEN Append(Remove(inflight, i),
                     ClientFetch("prefetch", inflight[i].q, inflight[i].p + 1))
         ELSE Remove(inflight, i)
  /\ loading' = FALSE
  /\ event' = Ev("settle", "search", inflight[i].p, "ok")
  /\ UNCHANGED <<query, homePage, error, prefetched>>
  /\ UNCHANGED <<handler, upstream, first>>

\* search after its await: a non-success answer whose body has the error
\* field err, or none
SearchNotOk(i, err) ==
  /\ i \in 1..Len(inflight)
  /\ inflight[i].kind = "search"
  /\ error' = Some(OrElse(err, "Search failed"))
  /\ homeData' = None
  /\ loading' = FALSE
  /\ inflight' = Remove(inflight, i)
  /\ event' = Ev("settle", "search", inflight[i].p, "notok")
  /\ UNCHANGED <<query, homePage, expandedId, prefetched>>
  /\ UNCHANGED <<handler, upstream, first>>

\* search: fetch or res.json() throws
SearchThrow(i, e) ==
  /\ i \in 1..Len(inflight)
  /\ inflight[i].kind = "search"
  /\ error' = Some(IF e.isError THEN e.message ELSE "Search failed")
  /\ homeData' = None
  /\ loading' = FALSE
  /\ inflight' = Remove(inflight, i)
  /\ event' = Ev("settle", "search", inflight[i].p, "throw")
  /\ UNCHANGED <<query, homePage, expandedId, prefetched>>
  /\ UNCHANGED <<handler, upstream, first>>

\* prefetchPage after its await: a 200 answer, kept if its body has items
PrefetchOk(i, body) ==
  /\ i \in 1..Len(inflight)
  /\ inflight[i].kind = "prefetch"
  /\ body \in OkBodies(inflight[i].q, inflight[i].p)
  /\ prefetched' =
       IF body.items # None
         THEN Some([query |-> inflight[i].q, page |-> inflight[i].p, data |-> body])
         ELSE prefetched
  /\ inflight' = Remove(inflight, i)
  /\ event' = Ev("settle", "prefetch", inflight[i].p,
                 IF body.items # None THEN "ok" ELSE "noitems")
  /\ UNCHANGED <<query, homePage, homeData, error, loading, expandedId>>
  /\ UNCHANGED <<handler, upstream, first>>

\* Variant of PrefetchFails: the failure is shown as an error
PrefetchFails_Shown(i, outcome) ==
  /\ i \in 1..Len(inflight)
  /\ inflight[i].kind = "prefetch"
  /\ outcome \in {"notok", "throw"}
  /\ inflight' = Remove(inflight, i)
  /\ error' = Some("Search failed")
  /\ event' = Ev("settle", "prefetch", inflight[i].p, outcome)
  /\ UNCHANGED <<query, homePage, homeData, loading, expandedId, prefetched>>
  /\ UNCHANGED <<handler, upstream, first>>

\* prefetchPage: a non-success answer, or fetch or res.json() throws
\* ("catch { /* ignore */ }")
PrefetchFails(i, outcome) ==
  /\ i \in 1..Len(inflight)
  /\ inflight[i].kind = "prefetch"
  /\ outcome \in {"notok", "throw"}
  /\ inflight' = Remove(inflight, i)
  /\ event' = Ev("settle", "prefetch", inflight[i].p, outcome)
  /\ UNCHANGED <<query, homePage, homeData, error, loading, expandedId, prefetched>>
  /\ UNCHANGED <<handler, upstream, first>>

\* Positions of inflight, and the bodies the server may answer with
Positions == 1..MaxInflight
AllOkBodies ==
  UNION {OkBodies(text, p) : text \in {Trim(t) : t \in Texts}, p \in 1..4}

HomeNext ==
  \/ \E text \in Texts : SetQuery(text)
  \/ \E id \in {"v"} : ToggleExpanded(id)
  \/ handleSubmit
  \/ \E nextPage \in 1..3 : goToPage(nextPage)
  \/ \E i \in Positions, body \in AllOkBodies : SearchOk(i, body)
  \/ \E i \in Positions, err \in ErrorFields : SearchNotOk(i, err)
  \/ \E i \in Positions, e \in Thrown : SearchThrow(i, e)
  \/ \E i \in Positions, body \in AllOkBodies : PrefetchOk(i, body)
  \/ \E i \in Positions, outcome \in {"notok", "throw"} : PrefetchFails(i, outcome)

\* Home as first rendered; the route handler stays idle
HomeInit == Init /\ apiKey = None

HomeSpec == HomeInit /\ [][HomeNext]_vars

(* ---------------------------------------------------------------------- *)
(* Vocabulary of the properties                                           *)
(* ---------------------------------------------------------------------- *)
\* The chunk fetches issued so far, in order
ChunkCalls == SelectSeq(calls, LAMBDA c : c.kind = "chunk")

\* The request has been answered with the success response
Succeeded == pc = "done" /\ response # None /\ response[1].status = 200

\* The primary fetch has been answered with success
PrimarySucceeded == calls # <<>> /\ calls[1].outcome = "ok"

\* The number of records delivered by the fetches of cs
RECURSIVE Delivered(_)
Delivered(cs) == IF cs = <<>> THEN 0 ELSE Head(cs).n + Delivered(Tail(cs))

\* The authors of the records infos, in scan order
RECURSIVE AuthorLog(_)
AuthorLog(infos) ==
  IF infos = <<>> THEN <<>>
  ELSE (IF Head(infos).authors = None THEN <<>> ELSE Head(infos).authors[1])
       \o AuthorLog(Tail(infos))

ScanLog == AuthorLog(scannedInfo)
AuthorsSeen == {ScanLog[i] : i \in 1..Len(ScanLog)}
Occurrences(a) == Cardinality({i \in 1..Len(ScanLog) : ScanLog[i] = a})

\* The position in the scan of the k-th occurrence of a
NthOccurrence(a, k) ==
  CHOOSE i \in 1..Len(ScanLog) :
    ScanLog[i] = a /\ Cardinality({j \in 1..i : ScanLog[j] = a}) = k

\* The years that lead the publication dates of the scanned records
HasLeadingYear(d) ==
  d # None /\ Len(d[1]) >= 4
  /\ \A i \in 1..4 : d[1][i] \in {"0", "1", "2", "3", "4", "5", "6", "7", "8", "9"}
LeadingYear(d) ==
  1000 * DigitVal(d[1][1]) + 100 * DigitVal(d[1][2]) + 10 * DigitVal(d[1][3])
  + DigitVal(d[1][4])
ScanYears ==
  {LeadingYear(scannedInfo[i].publishedDate) :
     i \in {j \in 1..Len(scannedInfo) : HasLeadingYear(scannedInfo[j].publishedDate)}}
Least(S) == IF S = {} THEN None ELSE Some(CHOOSE m \in S : \A x \in S : m <= x)
Greatest(S) == IF S = {} THEN None ELSE Some(CHOOSE m \in S : \A x \in S : m >= x)

\* a is among the authors that occur most often in the scan
OccursMost(a) == a \in AuthorsSeen /\ \A c \in AuthorsSeen : Occurrences(c) <= Occurrences(a)

\* The three statistics of the success response are those of the scanned records
StatsOfScan(body) ==
  /\ IF AuthorsSeen = {} THEN body.mostCommonAuthor = None
     ELSE body.mostCommonAuthor # None /\ OccursMost(body.mostCommonAuthor[1])
  /\ body.earliestPublicationYear = Least(ScanYears)
  /\ body.latestPublicationYear = Greatest(ScanYears)

\* The smallest multiple of m that is at least n
RoundUp(n, m) == ((n + m - 1) \div m) * m

(* ---------------------------------------------------------------------- *)
(* C1                                                                     *)
(* ---------------------------------------------------------------------- *)
\* C1 as stated: when a chunk fetch is answered with a non-success status
\* and records remain to be scanned past that chunk, the aggregation goes on
\* to fetch the next chunk.
C1_ContinuesPastFailedChunk ==
  pc = "done" =>
    \A i \in 1..Len(ChunkCalls) :
      (ChunkCalls[i].outcome = "notok" /\ i * chunkSize < toFetch)
        => Len(ChunkCalls) > i

\* C1 amended: a chunk fetch answered with a non-success status ends the
\* chunk loop like an empty batch: it is the last fetch of the request, the
\* request is answered with the 200 response, and the statistics of the
\* response are those of the records of the chunks before it.
C1_StopsAtFailedChunk ==
  \A i \in 1..Len(ChunkCalls) :
    ChunkCalls[i].outcome = "notok" =>
      /\ i = Len(ChunkCalls)
      /\ Succeeded
      /\ fetched = Delivered(SubSeq(ChunkCalls, 1, i - 1))
      /\ StatsOfScan(response[1].body)

C1_Witness ==
  /\ Succeeded
  /\ toFetch = MAX_RESULTS_FOR_STATS
  /\ Len(ChunkCalls) = 2
  /\ ChunkCalls[1].outcome = "ok" /\ ChunkCalls[1].n = chunkSize
  /\ ChunkCalls[2].outcome = "notok"
  /\ response[1].body.mostCommonAuthor = Some("A")
  /\ response[1].body.earliestPublicationYear = Some(1999)

(* ---------------------------------------------------------------------- *)
(* C2                                                                     *)
(* ---------------------------------------------------------------------- *)
\* C2: once the primary fetch has succeeded, the request ends with the 200
\* response whatever happens to the chunk fetches (non-success status or
\* thrown failure), never with 500 or 502.
C2_ChunkFailureNeverSurfaced ==
  (pc = "done" /\ PrimarySucceeded) => response[1].status = 200

(* ---------------------------------------------------------------------- *)
(* C3                                                                     *)
(* ---------------------------------------------------------------------- *)
\* C3 as stated: at the exit of the chunk loop of a successful request the
\* scanned count is min(totalItems, 200), unless some chunk delivered fewer
\* than 40 records, in which case it is the number of records delivered.
C3_ScannedIsMin ==
  Succeeded =>
    IF \E i \in 1..Len(ChunkCalls) : ChunkCalls[i].n < chunkSize
      THEN fetched = Delivered(ChunkCalls)
      ELSE fetched = Min(totalItems, 200)

\* C3 amended: at the exit of the chunk loop of a successful request the
\* scanned count is the number of records delivered; when every chunk
\* delivered exactly the 40 records requested, it is min(totalItems, 200)
\* rounded up to the next multiple of 40 (80 for totalItems = 50).
C3_ScannedIsRoundedUp ==
  Succeeded =>
    /\ fetched = Delivered(ChunkCalls)
    /\ (\A i \in 1..Len(ChunkCalls) : ChunkCalls[i].n = chunkSize)
         => fetched = RoundUp(Min(totalItems, 200), 40)

C3_Witness ==
  /\ Succeeded
  /\ totalItems = 50
  /\ Len(ChunkCalls) = 2
  /\ \A i \in 1..2 : ChunkCalls[i].n = chunkSize
  /\ fetched = 80

(* ---------------------------------------------------------------------- *)
(* C4                                                                     *)
(* ---------------------------------------------------------------------- *)
\* C4 as stated: when two authors occur exactly 3 times each and no author
\* occurs more often, mostCommonAuthor is the one whose third occurrence
\* comes first in the scan.
C4_FirstToReachMaxWins ==
  Succeeded =>
    \A a \in AuthorsSeen, b \in AuthorsSeen :
      ( /\ a # b
        /\ Occurrences(a) = 3 /\ Occurrences(b) = 3
        /\ \A c \in AuthorsSeen : Occurrences(c) <= 3
        /\ NthOccurrence(a, 3) < NthOccurrence(b, 3) )
      => response[1].body.mostCommonAuthor = Some(a)

\* C4 amended: on a tie for the highest count, mostCommonAuthor is the tied
\* author whose first occurrence comes first in the scan, whichever of them
\* reaches the count first.
C4_FirstSeenWins ==
  Succeeded =>
    \A a \in AuthorsSeen, b \in AuthorsSeen :
      ( /\ a # b
        /\ Occurrences(a) = Occurrences(b)
        /\ \A c \in AuthorsSeen : Occurrences(c) <= Occurrences(a)
        /\ NthOccurrence(a, 1) < NthOccurrence(b, 1) )
      => response[1].body.mostCommonAuthor = Some(a)

C4_Witness ==
  /\ Succeeded
  /\ Occurrences("A") = 3 /\ Occurrences("B") = 3
  /\ NthOccurrence("A", 3) < NthOccurrence("B", 3)
  /\ NthOccurrence("B", 1) < NthOccurrence("A", 1)
  /\ response[1].body.mostCommonAuthor = Some("B")

(* ---------------------------------------------------------------------- *)
(* C5                                                                     *)
(* ---------------------------------------------------------------------- *)
\* C5: when the reported total is at least 200 and every chunk fetch delivers
\* a full batch of 40 records, the request issues exactly 5 chunk requests,
\* with startIndex 0, 40, 80, 120, 160 in this order and maxResults 40 each,
\* and ends with exactly 200 records scanned.
C5_FiveFullChunks ==
  ( /\ pc = "done"
    /\ PrimarySucceeded
    /\ totalItems >= 200
    /\ \A i \in 1..Len(ChunkCalls) :
         ChunkCalls[i].outcome = "ok" /\ ChunkCalls[i].n = 40 )
  => /\ [i \in 1..Len(ChunkCalls) |-> ChunkCalls[i].url.startIndex]
          = << <<"0">>, <<"4", "0">>, <<"8", "0">>, <<"1", "2", "0">>, <<"1", "6", "0">> >>
     /\ \A i \in 1..Len(ChunkCalls) : ChunkCalls[i].url.maxResults = <<"4", "0">>
     /\ fetched = 200
     /\ Succeeded

C5_Witness ==
  /\ Succeeded
  /\ totalItems = 450
  /\ Len(ChunkCalls) = 5
  /\ \A i \in 1..5 : ChunkCalls[i].outcome = "ok" /\ ChunkCalls[i].n = 40
  /\ fetched = 200

QueryMissing ==
  \/ request[1].q = None
  \/ \A i \in 1..Len(request[1].q[1]) : request[1].q[1][i] \in {" ", "\t", "\n"}

\* C7: a request whose q parameter is absent or empty after trimming is
\* answered with status 400 and the body {error: "Missing search query (q)"},
\* and no upstream fetch is issued for it.
C7_MissingQueryIs400 ==
  (request # None /\ QueryMissing) =>
    /\ pc = "done"
    /\ response = Some([status |-> 400, body |-> [error |-> "Missing search query (q)"]])
    /\ calls = <<>>

C7_Witness ==
  /\ request # None
  /\ request[1].q = Some(<<" ", "\t">>)
  /\ response # None
  /\ response[1].status = 400
  /\ calls = <<>>

(* ---------------------------------------------------------------------- *)
(* C8                                                                     *)
(* ---------------------------------------------------------------------- *)
\* C8: at most one upstream fetch is outstanding at any time, it is the last
\* one issued, and the startIndex of an outstanding chunk fetch is the number
\* of records that the answered chunk fetches delivered, all of them folded
\* into the accumulators.
C8_OneFetchAtATime ==
  /\ \A i \in 1..Len(calls) :
       calls[i].outcome = "pending" => i = Len(calls) /\ pc \in {"primary", "chunk"}
  /\ pc = "chunk" =>
       /\ calls[Len(calls)].outcome = "pending"
       /\ fetched = Delivered(SubSeq(ChunkCalls, 1, Len(ChunkCalls) - 1))
       /\ calls[Len(calls)].url.startIndex = NumberToString(Num(fetched))
       /\ authorCounts # <<>> <=> AuthorsSeen # {}
       /\ \A i \in 1..Len(authorCounts) :
            authorCounts[i].count = Occurrences(authorCounts[i].author)

C8_Witness ==
  /\ pc = "chunk"
  /\ Len(ChunkCalls) = 3
  /\ ChunkCalls[3].outcome = "pending"
  /\ ChunkCalls[3].url.startIndex = <<"8", "0">>
  /\ fetched = 80
  /\ Len(scannedInfo) = 2

(* ---------------------------------------------------------------------- *)
(* C9                                                                     *)
(* ---------------------------------------------------------------------- *)
\* C9: in the success response mostCommonAuthor is an author whose number of
\* occurrences over the scanned records is maximal, and it is null exactly
\* when no scanned record has an author.
C9_MostCommonIsMaximal ==
  Succeeded =>
    LET m == response[1].body.mostCommonAuthor
    IN /\ m = None <=> AuthorsSeen = {}
       /\ m # None => OccursMost(m[1])

C9_Witness ==
  /\ Succeeded
  /\ Occurrences("A") = 2
  /\ Occurrences("B") = 1
  /\ NthOccurrence("B", 1) < NthOccurrence("A", 1)
  /\ response[1].body.mostCommonAuthor = Some("A")

(* ---------------------------------------------------------------------- *)
(* C10                                                                    *)
(* ---------------------------------------------------------------------- *)
\* C10: the year accumulators are the least and the greatest of the years
\* that lead the publication dates of the scanned records, null when no
\* scanned record has such a year (so a record without one changes neither),
\* and the success response carries them.
C10_YearsAreMinMax ==
  /\ earliestYear = Least(ScanYears)
  /\ latestYear = Greatest(ScanYears)
  /\ Succeeded =>
       /\ response[1].body.earliestPublicationYear = Least(ScanYears)
       /\ response[1].body.latestPublicationYear = Greatest(ScanYears)

C10_Witness ==
  /\ Succeeded
  /\ \E i \in 1..Len(scannedInfo) : scannedInfo[i].publishedDate = Some(DCirca)
  /\ Len(scannedInfo) = 3
  /\ scannedInfo[1].publishedDate = Some(D2020)
  /\ scannedInfo[3].publishedDate = Some(D1999)
  /\ response[1].body.earliestPublicationYear = Some(1999)
  /\ response[1].body.latestPublicationYear = Some(2020)

(* ---------------------------------------------------------------------- *)
(* C12                                                                    *)
(* ---------------------------------------------------------------------- *)
\* C12: whatever the page parameter is (absent, below 1, at least 1, or text
\* that is not a number), the page used is an integer of at least 1 and the
\* one primary fetch asks for maxResults 10 from startIndex (page - 1) * 10.
C12_PageIsAtLeastOne ==
  request # None =>
    /\ page # NaN
    /\ page[1] >= 1
    /\ Cardinality({i \in 1..Len(calls) : calls[i].kind = "primary"}) <= 1
    /\ calls # <<>> =>
         /\ calls[1].kind = "primary"
         /\ calls[1].url.maxResults = <<"1", "0">>
         /\ calls[1].url.startIndex = NatToString((page[1] - 1) * RESULTS_PER_PAGE)

(* ---------------------------------------------------------------------- *)
(* C14                                                                    *)
(* ---------------------------------------------------------------------- *)
\* C14: every request with a non-empty query whose primary fetch succeeds is
\* answered with a response whose totalItems is the totalItems of the
\* primary answer (0 when it has none), whatever the cap, the number of
\* records scanned and the failures of the chunk fetches.
C14_TotalItemsIsUpstreams ==
  (pc = "done" /\ PrimarySucceeded) =>
    /\ response # None
    /\ response[1].status = 200
    /\ response[1].body.totalItems = OrElse(data[1].totalItems, 0)

(* ---------------------------------------------------------------------- *)
(* C15                                                                    *)
(* ---------------------------------------------------------------------- *)
\* C15: as long as no chunk answer carries more records than the maxResults
\* asked for, at most 200 records have been scanned and at most 5 chunk
\* fetches issued, whatever totalItems is and whatever the batches are.
C15_ScanIsBounded ==
  (\A i \in 1..Len(ChunkCalls) : ChunkCalls[i].n <= chunkSize) =>
    /\ fetched <= 200
    /\ Len(scannedInfo) <= fetched
    /\ Len(ChunkCalls) <= 5

C15_Witness ==
  /\ pc = "done"
  /\ totalItems = 450
  /\ Len(ChunkCalls) = 5
  /\ ChunkCalls[5].n = 39
  /\ fetched = 199

(* ---------------------------------------------------------------------- *)
(* C16                                                                    *)
(* ---------------------------------------------------------------------- *)
\* C16: no startIndex is requested twice, the startIndex of every chunk
\* fetch is the number of records scanned before it, every chunk fetch but
\* the last was answered with a full batch that left the scan short of
\* toFetch, and nothing is fetched once the request is answered.
C16_NoRetryNoOvershoot ==
  /\ \A i, j \in 1..Len(ChunkCalls) :
       i # j => ChunkCalls[i].url.startIndex # ChunkCalls[j].url.startIndex
  /\ \A i \in 1..Len(ChunkCalls) :
       ChunkCalls[i].url.startIndex
         = NatToString(Delivered(SubSeq(ChunkCalls, 1, i - 1)))
  /\ \A i \in 1..(Len(ChunkCalls) - 1) :
       /\ ChunkCalls[i].outcome = "ok"
       /\ ChunkCalls[i].n >= chunkSize
       /\ Delivered(SubSeq(ChunkCalls, 1, i)) < toFetch
  /\ pc = "done" => \A i \in 1..Len(calls) : calls[i].outcome # "pending"

C16_Witness ==
  /\ Succeeded
  /\ toFetch = 200
  /\ Len(ChunkCalls) = 3
  /\ ChunkCalls[2].url.startIndex = <<"4", "0">>
  /\ ChunkCalls[3].url.startIndex = <<"8", "0">>
  /\ ChunkCalls[3].n = 1

(* ---------------------------------------------------------------------- *)
(* C17                                                                    *)
(* ---------------------------------------------------------------------- *)
\* earliestYear is null exactly when latestYear is, and is at most
\* latestYear when they are not null
YearsConsistent ==
  /\ earliestYear = None <=> latestYear = None
  /\ earliestYear # None => earliestYear[1] <= latestYear[1]

\* C17: in every step of the request the year accumulators are consistent
\* before and after it, and once they are not null they stay so,
\* earliestYear never increases and latestYear never decreases.
C17_YearsMonotone ==
  [][/\ YearsConsistent
     /\ YearsConsistent'
     /\ earliestYear # None =>
          earliestYear' # None /\ earliestYear'[1] <= earliestYear[1]
     /\ latestYear # None =>
          latestYear' # None /\ latestYear'[1] >= latestYear[1]]_vars

C17_Witness ==
  /\ pc = "chunk"
  /\ Len(ChunkCalls) = 3
  /\ Len(scannedInfo) = 2
  /\ scannedInfo[1].publishedDate = Some(D2020)
  /\ scannedInfo[2].publishedDate = Some(D1999)
  /\ earliestYear = Some(1999)
  /\ latestYear = Some(2020)

(* ---------------------------------------------------------------------- *)
(* C18                                                                    *)
(* ---------------------------------------------------------------------- *)
\* C18: when the primary answer has totalItems 0 or none, no chunk fetch is
\* issued and the request is answered with the 200 response whose
\* mostCommonAuthor, earliestPublicationYear and latestPublicationYear are
\* null.
C18_NothingToScan ==
  (PrimarySucceeded /\ data[1].totalItems \in {None, Some(0)}) =>
    /\ ChunkCalls = <<>>
    /\ Succeeded
    /\ response[1].body.mostCommonAuthor = None
    /\ response[1].body.earliestPublicationYear = None
    /\ response[1].body.latestPublicationYear = None

C18_Witness ==
  /\ Succeeded
  /\ data = Some([totalItems |-> None, items |-> None])
  /\ Len(calls) = 1
  /\ response[1].body.totalItems = 0
  /\ response[1].body.mostCommonAuthor = None

(* ---------------------------------------------------------------------- *)
(* C13                                                                    *)
(* ---------------------------------------------------------------------- *)
\* The request has ended with a structured response
Ended ==
  /\ pc = "done"
  /\ response # None
  /\ response[1].status \in {200, 400, 502, 500}

\* The position of the handler: idle, scanning (either await), done
PcRank == [idle |-> 0, primary |-> 1, chunk |-> 2, done |-> 3]

\* C13: when every fetch is eventually answered, a request that has arrived
\* eventually ends with a response of status 200, 400, 502 or 500; the
\* handler only moves forward from idle through its awaits to done, the
\* response once given is never replaced, and after a fetch has thrown the
\* request has ended with the 500 response.
C13_EndsWithOneResponse ==
  /\ (request # None) ~> Ended
  /\ [][/\ PcRank[pc] <= PcRank[pc']
        /\ pc = "done" => pc' = "done" /\ response' = response
        /\ pc' # "done" => response' = None
        /\ (\E i \in 1..Len(calls') : calls'[i].outcome = "throw")
             => pc' = "done" /\ response' # None /\ response'[1].status = 500]_vars

C13_Witness ==
  /\ Ended
  /\ Len(ChunkCalls) = 2
  /\ ChunkCalls[2].outcome = "throw"
  /\ response[1].status = 500
  /\ response[1].body.error = "fetch failed"

(* ---------------------------------------------------------------------- *)
(* C11                                                                    *)
(* ---------------------------------------------------------------------- *)
\* The three statistics of a 200 response
StatsOf(body) ==
  <<body.mostCommonAuthor, body.earliestPublicationYear, body.latestPublicationYear>>

\* Two requests with the same query have both been answered 200
BothSucceeded ==
  /\ first # None
  /\ first[1].response # None
  /\ first[1].response[1].status = 200
  /\ Succeeded
  /\ first[1].q = q

\* C11: against a static upstream two requests with the same query, for
\* whatever pages, are answered with the same mostCommonAuthor,
\* earliestPublicationYear and latestPublicationYear.
C11_StatsIgnorePage ==
  BothSucceeded => StatsOf(response[1].body) = StatsOf(first[1].response[1].body)

\* C11 as amended: the three statistics of the two requests are the same
\* whenever their primary answers reported the same totalItems, as they do
\* when the two requests ask for the same page.
C11_StatsFollowTotalItems ==
  /\ (BothSucceeded
       /\ response[1].body.totalItems = first[1].response[1].body.totalItems)
      => StatsOf(response[1].body) = StatsOf(first[1].response[1].body)
  /\ (BothSucceeded /\ page = first[1].page)
      => response[1].body.totalItems = first[1].response[1].body.totalItems

C11_Witness ==
  /\ BothSucceeded
  /\ first[1].page = Num(1)
  /\ page = Num(2)
  /\ response[1].body.totalItems = 450
  /\ first[1].response[1].body.totalItems = 450
  /\ Len(ChunkCalls) = 3
  /\ response[1].body.mostCommonAuthor = Some("A")
  /\ response[1].body.earliestPublicationYear = Some(1999)
  /\ response[1].body.latestPublicationYear = Some(2020)

(* ---------------------------------------------------------------------- *)
(* C19                                                                    *)
(* ---------------------------------------------------------------------- *)
\* The step just made settled a fetch of the given kind
Settled(kind) == event' # None /\ event'[1].name = "settle" /\ event'[1].kind = kind

\* C19: a step in which a prefetch settles otherwise than with a 200 answer
\* that has items (a non-success answer, an answer without items, a thrown
\* failure) changes none of the displayed data, the error, the loading
\* flag, the page number and the prefetch cache, whatever else is in flight.
C19_FailedPrefetchIsDiscarded ==
  [][(Settled("prefetch") /\ event'[1].outcome # "ok")
       => UNCHANGED <<homeData, error, loading, homePage, prefetched>>]_vars

C19_Witness ==
  /\ event # None
  /\ event[1].name = "settle"
  /\ event[1].kind = "prefetch"
  /\ event[1].outcome = "throw"
  /\ loading
  /\ homeData # None
  /\ \E i \in 1..Len(inflight) : inflight[i].kind = "search" /\ inflight[i].q = <<"e">>

(* ---------------------------------------------------------------------- *)
(* C20                                                                    *)
(* ---------------------------------------------------------------------- *)
\* C20: a goToPage step shows the cached answer, and clears the cache without
\* searching, only when the cache holds the answer given to the request for
\* the target page of the trimmed current query; in every other case it
\* leaves the displayed answer alone and issues a search for that page of
\* that query.
C20_CacheOnlyForCurrentQuery ==
  [][(event' # None /\ event'[1].name = "goToPage") =>
       LET text == Trim(query)
           nextPage == event'[1].p
           searches(fs) == SelectSeq(fs, LAMBDA f : f.kind = "search")
       IN IF prefetched # None
               /\ prefetched[1].data.asked = [q |-> text, p |-> nextPage]
            THEN /\ homeData' = Some(prefetched[1].data)
                 /\ homePage' = nextPage
                 /\ prefetched' = None
                 /\ searches(inflight') = searches(inflight)
            ELSE /\ homeData' = homeData
                 /\ homePage' = nextPage
                 /\ inflight' = Append(inflight, ClientFetch("search", text, nextPage))]_vars

====
